---- MODULE Spec2Model ----
(***************************************************************************)
(* Model of omnitoolbelt/toolbelt.py: the tool registry, name resolution,  *)
(* schema derivation and the synchronous / asynchronous execution bridge.  *)
(*                                                                         *)
(* Python strings are sequences of tokens; the token "." is the separator  *)
(* character, every other token is a run of characters without a ".".      *)
(* A Python dict is a sequence of <<key, value>> pairs in insertion order. *)
(***************************************************************************)
EXTENDS Integers, Naturals, Sequences, FiniteSets, TLC

VARIABLES
  APIOMORPHIC_AVAILABLE, \* module global: did `from apiomorphic import ...` succeed
  tool_definitions_set, \* does the instance have the attribute _tool_definitions
  tool_definitions,     \* Toolbelt()._tool_definitions : dict name -> ToolDefinition
  tools,                \* Toolbelt._tools : dict group -> dict name -> callable
  descriptions,         \* Toolbelt._descriptions : dict qualified name -> description
  parameters,           \* Toolbelt._parameters : dict qualified name -> schema
  decorator_name,       \* the closure variable `name` of the decorator in use
  tool_name_arg,        \* history: the name argument of the tool() call that made it
  warnings,             \* number of overwrite warnings emitted so far
  nregs,                \* number of registration calls made so far
  group_order,          \* history: the groups in the order they were first registered
  last,                 \* the last operation, its inputs and its outcome
  calls                 \* concurrent invocations in flight (one per thread / task)

vars == <<APIOMORPHIC_AVAILABLE, tool_definitions_set, tool_definitions, tools, descriptions,
          parameters, decorator_name, tool_name_arg, warnings, nregs, group_order, last, calls>>

registry == <<tools, descriptions, parameters>>

-----------------------------------------------------------------------------
(* Bounds *)

MaxRegs == 2      \* registrations per behaviour
MaxCalls == 3     \* concurrent invocations
MaxLive == 1      \* invocations followed through their life cycle

-----------------------------------------------------------------------------
(* Strings and dicts *)

None == <<"None">>

Contains(s, tok) == \E i \in 1..Len(s) : s[i] = tok

FirstIndex(s, tok) == CHOOSE i \in 1..Len(s) : s[i] = tok /\ \A j \in 1..(i - 1) : s[j] # tok

LastIndex(s, tok) == CHOOSE i \in 1..Len(s) : s[i] = tok /\ \A j \in (i + 1)..Len(s) : s[j] # tok

\* mutant: str.rsplit(sep, 1), the split at the last separator
Split1_rsplit(s, tok) ==
  LET i == LastIndex(s, tok)
  IN  <<SubSeq(s, 1, i - 1), SubSeq(s, i + 1, Len(s))>>

\* str.split(sep, 1) for a string that contains sep
Split1(s, tok) ==
  LET i == FirstIndex(s, tok)
  IN  <<SubSeq(s, 1, i - 1), SubSeq(s, i + 1, Len(s))>>

DictHas(d, k) == \E i \in 1..Len(d) : d[i][1] = k

DictGet(d, k) == d[CHOOSE i \in 1..Len(d) : d[i][1] = k][2]

\* mutant: the assignment replaces the dict by one that holds just this key
DictSet_fresh(d, k, v) == <<<<k, v>>>>

\* d[k] = v : an existing key keeps its position, a new key goes last
DictSet(d, k, v) ==
  IF DictHas(d, k)
  THEN [i \in 1..Len(d) |-> IF d[i][1] = k THEN <<k, v>> ELSE d[i]]
  ELSE Append(d, <<k, v>>)

DictKeys(d) == [i \in 1..Len(d) |-> d[i][1]]

EmptyKw == [k \in {} |-> 0]

-----------------------------------------------------------------------------
(* Outcomes of a call: a returned value or a raised exception *)

RetInt(n) == [kind |-> "return", t |-> "int", n |-> n, s |-> <<>>]

RetStr(s) == [kind |-> "return", t |-> "str", n |-> 0, s |-> s]

Raise(exc, msg) == [kind |-> "raise", t |-> exc, n |-> 0, s |-> msg]

IsException(o) == o.kind = "raise"

\* str(e)
StrOf(o) == o.s

NoOutcome == [kind |-> "none", t |-> "none", n |-> 0, s |-> <<>>]

-----------------------------------------------------------------------------
(* The functions host code registers.  params: declared parameters in      *)
(* declaration order, each with its annotation ("" when it has none) and   *)
(* whether it has a default; ret: the return annotation ("" when none).    *)

FuncIds == {"add", "multiply", "divide"}

FuncDef(f) ==
  CASE f = "add" ->
         [name |-> <<"add">>, coroutine |-> TRUE, doc |-> <<"Add two numbers">>,
          params |-> <<[p |-> "a", typ |-> "float", default |-> FALSE],
                       [p |-> "b", typ |-> "float", default |-> FALSE]>>,
          ret |-> "float"]
    [] f = "multiply" ->
         [name |-> <<"multiply">>, coroutine |-> FALSE, doc |-> <<"Multiply two numbers">>,
          params |-> <<[p |-> "x", typ |-> "float", default |-> FALSE],
                       [p |-> "y", typ |-> "float", default |-> FALSE]>>,
          ret |-> "float"]
    [] f = "divide" ->
         [name |-> <<"divide">>, coroutine |-> FALSE, doc |-> None,
          params |-> <<[p |-> "a", typ |-> "int", default |-> FALSE],
                       [p |-> "b", typ |-> "int", default |-> FALSE],
                       [p |-> "rounding", typ |-> "", default |-> TRUE]>>,
          ret |-> "int"]

ParamNames(f) == {FuncDef(f).params[i].p : i \in 1..Len(FuncDef(f).params)}

\* the body of the function, run with its parameters bound
Body(f, kw) ==
  CASE f = "add"      -> RetInt(kw.a + kw.b)
    [] f = "multiply" -> RetInt(kw.x * kw.y)
    [] f = "divide"   -> IF kw.b = 0
                         THEN Raise("ZeroDivisionError", <<"integer division or modulo by zero">>)
                         ELSE RetInt(kw.a \div kw.b)

CountWord(n) == CASE n = 1 -> "1" [] n = 2 -> "2" [] OTHER -> "3"

\* func(**kwargs): Python binds the keywords to the parameters, then runs the body
CallFunc(f, kw) ==
  LET unexpected == DOMAIN kw \ ParamNames(f)
      missing == {i \in 1..Len(FuncDef(f).params) :
                    /\ ~FuncDef(f).params[i].default
                    /\ FuncDef(f).params[i].p \notin DOMAIN kw}
  IN  IF unexpected # {}
      THEN Raise("TypeError", FuncDef(f).name \o <<"() got an unexpected keyword argument '">>
                              \o <<CHOOSE k \in unexpected : TRUE>> \o <<"'">>)
      ELSE IF missing # {}
      THEN Raise("TypeError", FuncDef(f).name
                              \o <<"() missing ", CountWord(Cardinality(missing)),
                                   " required positional arguments: ">>
                              \o [j \in 1..Cardinality(missing) |->
                                    FuncDef(f).params[CHOOSE i \in missing :
                                       Cardinality({m \in missing : m < i}) = j - 1].p])
      ELSE Body(f, kw)

-----------------------------------------------------------------------------
(* Metadata derivation *)

\* get_func_description: a one-element tuple holding the doc text or ""
get_func_description(f) ==
  [pytype |-> "tuple", items |-> <<IF FuncDef(f).doc = None THEN <<>> ELSE FuncDef(f).doc>>]

\* mutant: the mapping goes by subclass, so bool (a subclass of int) is "integer"
get_json_type_by_subclass(typ) ==
  CASE typ = "str"   -> "string"
    [] typ = "int"   -> "integer"
    [] typ = "float" -> "number"
    [] typ = "bool"  -> "integer"
    [] typ = "list"  -> "array"
    [] typ = "dict"  -> "object"
    [] OTHER         -> "string"

get_json_type(typ) ==
  CASE typ = "str"   -> "string"
    [] typ = "int"   -> "integer"
    [] typ = "float" -> "number"
    [] typ = "bool"  -> "boolean"
    [] typ = "list"  -> "array"
    [] typ = "dict"  -> "object"
    [] OTHER         -> "string"

\* typing.get_type_hints: the annotated parameters in declaration order, then
\* the return annotation under the key "return"
get_type_hints(f) ==
  LET ps == FuncDef(f).params
      annotated == SelectSeq(ps, LAMBDA x : x.typ # "")
      hints == [i \in 1..Len(annotated) |-> <<annotated[i].p, annotated[i].typ>>]
  IN  IF FuncDef(f).ret # "" THEN Append(hints, <<"return", FuncDef(f).ret>>) ELSE hints

\* del hints["return"]
DictDel(d, k) == SelectSeq(d, LAMBDA kv : kv[1] # k)

\* mutant: the return annotation is left among the hints
get_func_parameters_keeps_return(f) ==
  LET hints == get_type_hints(f)
  IN  [type |-> "object",
       properties |-> [i \in 1..Len(hints) |-> <<hints[i][1], [type |-> get_json_type(hints[i][2])]>>],
       required |-> DictKeys(hints)]

get_func_parameters(f) ==
  LET h0 == get_type_hints(f)
      hints == IF DictHas(h0, "return") THEN DictDel(h0, "return") ELSE h0
  IN  [type |-> "object",
       properties |-> [i \in 1..Len(hints) |-> <<hints[i][1], [type |-> get_json_type(hints[i][2])]>>],
       required |-> DictKeys(hints)]

-----------------------------------------------------------------------------
(* The execution bridge *)

\* the callable stored for a tool: the closure of `wrapper` over name and func
Wrapped(name, f) == [coroutine_function |-> TRUE, name |-> name, func |-> f]

\* await x / asyncio.to_thread(func, **kwargs): run to completion, hand back the outcome
Await(o) == o

to_thread(f, kw) == CallFunc(f, kw)

\* the except clause of `wrapper`: an exception becomes an error string
wrapper_except(c, result) ==
  IF IsException(result)
  THEN RetStr(<<"Error: ">> \o c.name \o <<": ">> \o StrOf(result))
  ELSE result

\* the body of `wrapper`, run for the closure c with keywords kw
wrapper(c, kw) ==
  wrapper_except(c, IF FuncDef(c.func).coroutine
                    THEN Await(CallFunc(c.func, kw))
                    ELSE Await(to_thread(c.func, kw)))

is_async_callable(obj) == obj.coroutine_function

\* asyncio.run(coro): refuses to start inside a thread whose event loop is running
asyncio_run(in_loop, c, kw) ==
  IF in_loop
  THEN Raise("RuntimeError", <<"asyncio.run() cannot be called from a running event loop">>)
  ELSE wrapper(c, kw)

-----------------------------------------------------------------------------
(* Name resolution *)

Resolved(g, n) == [kind |-> "return", t |-> "tuple", n |-> 0, s |-> <<>>, group |-> g, func_name |-> n]

\* the groups, in the order of cls._tools.items(), whose funcs contain name
GroupsWith(name) == SelectSeq(DictKeys(tools), LAMBDA g : DictHas(DictGet(tools, g), name))

\* mutant: a bare name resolves to the last group that has it
parse_tool_name_last_group(name) ==
  IF Contains(name, ".")
  THEN Resolved(Split1(name, ".")[1], Split1(name, ".")[2])
  ELSE IF GroupsWith(name) # <<>>
       THEN Resolved(GroupsWith(name)[Len(GroupsWith(name))], name)
       ELSE Raise("ValueError", <<"Tool not found: ">> \o name)

\* mutant: a qualified name is looked up, and fails when its group is unknown
parse_tool_name_checks_group(name) ==
  IF Contains(name, ".") /\ DictHas(tools, Split1(name, ".")[1])
  THEN Resolved(Split1(name, ".")[1], Split1(name, ".")[2])
  ELSE IF ~Contains(name, ".") /\ GroupsWith(name) # <<>>
       THEN Resolved(Head(GroupsWith(name)), name)
       ELSE Raise("ValueError", <<"Tool not found: ">> \o name)

parse_tool_name(name) ==
  IF Contains(name, ".")
  THEN Resolved(Split1(name, ".")[1], Split1(name, ".")[2])
  ELSE IF GroupsWith(name) # <<>>
       THEN Resolved(Head(GroupsWith(name)), name)
       ELSE Raise("ValueError", <<"Tool not found: ">> \o name)

-----------------------------------------------------------------------------
(* Execution entry points *)

UnknownTool(name) == RetStr(<<"Error: ", "Unknown tool '">> \o name \o <<"'">>)

\* the try block of execute_async
execute_async_try(name, kw) ==
  LET p == parse_tool_name(name)
  IN  IF IsException(p) THEN p
      ELSE IF DictHas(tools, p.group) /\ DictHas(DictGet(tools, p.group), p.func_name)
           THEN LET func == DictGet(DictGet(tools, p.group), p.func_name)
                IN  IF is_async_callable(func)
                    THEN Await(wrapper(func, kw))
                    ELSE CallFunc(func.func, kw)
           ELSE UnknownTool(name)

execute_async(name, kw) ==
  LET r == execute_async_try(name, kw)
  IN  IF IsException(r) THEN RetStr(<<"Error: ">> \o StrOf(r)) ELSE r

\* mutant: a synchronous body is called directly instead of through its wrapper
execute_sync_try_direct(name, kw, in_loop) ==
  LET p == parse_tool_name(name)
  IN  IF IsException(p) THEN p
      ELSE IF DictHas(tools, p.group) /\ DictHas(DictGet(tools, p.group), p.func_name)
           THEN LET func == DictGet(DictGet(tools, p.group), p.func_name)
                IN  IF FuncDef(func.func).coroutine
                    THEN asyncio_run(in_loop, func, kw)
                    ELSE CallFunc(func.func, kw)
           ELSE UnknownTool(name)

\* the try block of execute_sync, called from a thread whose event loop is
\* running (in_loop) or from a plain blocking thread
execute_sync_try(name, kw, in_loop) ==
  LET p == parse_tool_name(name)
  IN  IF IsException(p) THEN p
      ELSE IF DictHas(tools, p.group) /\ DictHas(DictGet(tools, p.group), p.func_name)
           THEN LET func == DictGet(DictGet(tools, p.group), p.func_name)
                IN  IF is_async_callable(func)
                    THEN asyncio_run(in_loop, func, kw)
                    ELSE CallFunc(func.func, kw)
           ELSE UnknownTool(name)

\* mutant: no except clause, the exception reaches the caller
execute_sync_reraises(name, kw, in_loop) == execute_sync_try(name, kw, in_loop)

execute_sync(name, kw, in_loop) ==
  LET r == execute_sync_try(name, kw, in_loop)
  IN  IF IsException(r) THEN RetStr(<<"Error: ">> \o StrOf(r)) ELSE r

Formatted(api_format, tuples) ==
  [kind |-> "return", t |-> "formatted", n |-> 0, s |-> <<>>,
   api_format |-> api_format, items |-> tuples]

\* the end of get_tools: the collected tuples are returned raw when no format
\* is asked for, otherwise handed to the formatter if it could be imported
get_tools_return(api_format, collected) ==
  IF api_format = None
  THEN collected
  ELSE IF ~APIOMORPHIC_AVAILABLE
       THEN Raise("ImportError", <<"apiomorphic package is required for API format conversion. ",
                                   "Install it with: pip install apiomorphic">>)
       ELSE Formatted(api_format, collected)

\* get_tools as declared: no cls, no groups parameter; a groups keyword is
\* rejected by the call, and without it the body reads the undefined `groups`
get_tools(groups_given, api_format) ==
  IF groups_given
  THEN Raise("TypeError", <<"Toolbelt.get_tools() got an unexpected keyword argument 'groups'">>)
  ELSE LET collected == Raise("NameError", <<"name 'groups' is not defined">>)
       IN  IF IsException(collected) THEN collected ELSE get_tools_return(api_format, collected)

-----------------------------------------------------------------------------
(* Inputs *)

\* (group, explicit name or None, function) of the registrations host code makes
RegInputs == {<<<<"math">>, None, "add">>,
              <<<<"text">>, None, "add">>,
              <<<<"math", ".", "text">>, None, "add">>,
              <<<<"math">>, <<"add">>, "divide">>,
              <<<<"text">>, None, "divide">>,
              <<<<"math">>, <<"text", ".", "add">>, "divide">>}

NameOpts == {None, <<"add">>}

ExecNames == {<<"add">>, <<"divide">>, <<"nosuch">>, <<"math", ".", "add">>,
              <<"text", ".", "divide">>, <<"math", ".", "text", ".", "add">>,
              <<"unknown", ".", "tool">>}

Kwargs == {[a |-> 5, b |-> 3], [a |-> 6, b |-> 0], [wrong_param |-> 1], EmptyKw}

\* types a parameter can be annotated with: the six mapped ones and others
PyTypes == {"str", "int", "float", "bool", "list", "dict",
            "NoneType", "bytes", "tuple", "List[int]", "Optional[int]", "Any", "Decimal"}

ApiFormats == {None, <<"openai">>}

GroupLists == {<<>>, <<<<"math">>>>, <<<<"text">>, <<"nogroup">>>>}

NoDecorator == <<"no decorator">>

Op(op, name, kw, in_loop, out) ==
  [op |-> op, name |-> name, kwargs |-> kw, in_loop |-> in_loop,
   groups_given |-> FALSE, groups |-> <<>>, api_format |-> None, typ |-> "", func |-> "none",
   slot |-> <<>>, out |-> out]

NoFunc == [coroutine_function |-> FALSE, name |-> <<>>, func |-> "none"]

\* one invocation of execute_sync (its own thread) or execute_async (a task)
IdleCall ==
  [pc |-> "idle", entry |-> "none", name |-> <<>>, kwargs |-> EmptyKw, func |-> NoFunc,
   outcome |-> NoOutcome, ran_on |-> "none", result |-> NoOutcome]

-----------------------------------------------------------------------------
(* State *)

\* the state after `import toolbelt`, with or without the apiomorphic package
InitWith(available) ==
  /\ APIOMORPHIC_AVAILABLE = available
  /\ tool_definitions_set = FALSE
  /\ tool_definitions = <<>>
  /\ tools = <<>>
  /\ descriptions = <<>>
  /\ parameters = <<>>
  /\ decorator_name = NoDecorator
  /\ tool_name_arg = NoDecorator
  /\ warnings = 0
  /\ nregs = 0
  /\ group_order = <<>>
  /\ last = Op("init", <<>>, EmptyKw, FALSE, NoOutcome)
  /\ calls = [i \in 1..MaxCalls |-> IdleCall]

\* apiomorphic is an optional extra: the plain installation has none
Init == InitWith(FALSE)

\* the registry reg = <<tools, descriptions, parameters>> after registering f
\* under (group, name): the tool is stored wrapped, with its derived description
\* and parameters
RegisterInto(reg, group, name, f) ==
  LET qualified_name == group \o <<".">> \o name
      funcs == IF DictHas(reg[1], group) THEN DictGet(reg[1], group) ELSE <<>>
  IN  <<DictSet(reg[1], group, DictSet(funcs, name, Wrapped(name, f))),
        DictSet(reg[2], qualified_name, get_func_description(f)),
        DictSet(reg[3], qualified_name, get_func_parameters(f))>>

Registered(group, name, f) == RegisterInto(<<tools, descriptions, parameters>>, group, name, f)

IsRegistered(group, name) == DictHas(tools, group) /\ DictHas(DictGet(tools, group), name)

\* Registration into the class-level registry.  _parse_tool_name, get_tools and
\* the execute entry points read cls._tools, cls._descriptions and
\* cls._parameters, and the tests register with Toolbelt.tool(group=...), but
\* toolbelt.py holds no code that writes them: this registrar follows the
\* specification (register: derive description and schema, store the wrapped
\* callable, warn once when an existing (group, name) is overwritten).
Register(group, nameopt, f) ==
  LET name == IF nameopt = None THEN FuncDef(f).name ELSE nameopt
  IN  /\ nregs < MaxRegs
      /\ nregs' = nregs + 1
      /\ group_order' = IF Contains(group_order, group) THEN group_order
                                                        ELSE Append(group_order, group)
      /\ warnings' = IF IsRegistered(group, name) THEN warnings + 1 ELSE warnings
      /\ tools' = Registered(group, name, f)[1]
      /\ descriptions' = Registered(group, name, f)[2]
      /\ parameters' = Registered(group, name, f)[3]
      /\ last' = [Op("register", group \o <<".">> \o name, EmptyKw, FALSE, NoOutcome)
                     EXCEPT !.slot = <<group, name>>]
      /\ UNCHANGED <<APIOMORPHIC_AVAILABLE, tool_name_arg, tool_definitions_set, tool_definitions, decorator_name, calls>>

\* tb.tool(name): a new decorator whose closure holds name
Tool(nameopt) ==
  /\ decorator_name' = nameopt
  /\ tool_name_arg' = nameopt
  /\ last' = Op("tool", <<>>, EmptyKw, FALSE, NoOutcome)
  /\ UNCHANGED <<APIOMORPHIC_AVAILABLE, tool_definitions_set, tool_definitions, registry, warnings, nregs, group_order, calls>>

\* decorator(func): binds the closure's name, then reads self._tool_definitions,
\* which __init__ annotates but never assigns
Decorator(f) ==
  LET name == IF decorator_name = None THEN FuncDef(f).name ELSE decorator_name
  IN  /\ decorator_name # NoDecorator
      /\ decorator_name' = name
      /\ IF ~tool_definitions_set
         THEN /\ last' = [Op("decorator", name, EmptyKw, FALSE,
                             Raise("AttributeError",
                                   <<"'Toolbelt' object has no attribute '_tool_definitions'">>))
                             EXCEPT !.func = f]
              /\ UNCHANGED <<tool_definitions, warnings>>
         ELSE /\ warnings' = IF DictHas(tool_definitions, name) THEN warnings + 1 ELSE warnings
              /\ tool_definitions' =
                    DictSet(tool_definitions, name,
                            [callable |-> Wrapped(name, f),
                             description |-> get_func_description(f),
                             parameters |-> get_func_parameters(f)])
              /\ last' = [Op("decorator", name, EmptyKw, FALSE, NoOutcome) EXCEPT !.func = f]
      /\ UNCHANGED <<APIOMORPHIC_AVAILABLE, tool_name_arg, tool_definitions_set, registry, nregs, group_order, calls>>

Resolve(name) ==
  /\ last' = Op("resolve", name, EmptyKw, FALSE, parse_tool_name(name))
  /\ UNCHANGED <<APIOMORPHIC_AVAILABLE, tool_name_arg, tool_definitions_set, tool_definitions, registry, decorator_name, warnings, nregs, group_order, calls>>

ExecuteAsync(name, kw) ==
  /\ last' = Op("execute_async", name, kw, TRUE, execute_async(name, kw))
  /\ UNCHANGED <<APIOMORPHIC_AVAILABLE, tool_name_arg, tool_definitions_set, tool_definitions, registry, decorator_name, warnings, nregs, group_order, calls>>

ExecuteSync(name, kw, in_loop) ==
  /\ last' = Op("execute_sync", name, kw, in_loop, execute_sync(name, kw, in_loop))
  /\ UNCHANGED <<APIOMORPHIC_AVAILABLE, tool_name_arg, tool_definitions_set, tool_definitions, registry, decorator_name, warnings, nregs, group_order, calls>>

GetTools(groups_given, groups, api_format) ==
  /\ last' = [Op("get_tools", <<>>, EmptyKw, FALSE, get_tools(groups_given, api_format))
                 EXCEPT !.groups_given = groups_given, !.groups = groups,
                        !.api_format = api_format]
  /\ UNCHANGED <<APIOMORPHIC_AVAILABLE, tool_name_arg, tool_definitions_set, tool_definitions, registry, decorator_name, warnings, nregs, group_order, calls>>

JsonType(typ) ==
  /\ last' = [Op("get_json_type", <<>>, EmptyKw, FALSE, RetStr(<<get_json_type(typ)>>))
                 EXCEPT !.typ = typ]
  /\ UNCHANGED <<APIOMORPHIC_AVAILABLE, tool_name_arg, tool_definitions_set, tool_definitions, registry, decorator_name, warnings, nregs, group_order, calls>>

Query ==
  \/ \E n \in ExecNames : Resolve(n)
  \/ \E n \in ExecNames, kw \in Kwargs : ExecuteAsync(n, kw)
  \/ \E n \in ExecNames, kw \in Kwargs, l \in BOOLEAN : ExecuteSync(n, kw, l)
  \/ \E gl \in GroupLists, af \in ApiFormats : GetTools(TRUE, gl, af)
  \/ \E af \in ApiFormats : GetTools(FALSE, <<>>, af)

\* the class-level registry: registrations, resolution, listing, execution
Next ==
  \/ \E r \in RegInputs : Register(r[1], r[2], r[3])
  \/ Query

Spec == Init /\ [][Next]_vars

-----------------------------------------------------------------------------
(* Concurrent invocations: execute_sync from independent threads, each with   *)
(* the event loop asyncio.run gives it, and execute_async as tasks of one     *)
(* event loop.  A task gives up the loop only while it awaits to_thread.      *)

EmptyRegistry == <<<<>>, <<>>, <<>>>>

ConcRegistry ==
  RegisterInto(RegisterInto(EmptyRegistry, <<"math">>, <<"add">>, "add"),
               <<"math">>, <<"multiply">>, "multiply")

\* the i-th invocation's inputs: add(i-1, i-1) or multiply(i-1, i-1)
Jobs(i) == {<<<<"math", ".", "add">>, [a |-> i - 1, b |-> i - 1]>>,
            <<<<"math", ".", "multiply">>, [x |-> i - 1, y |-> i - 1]>>}

InitConc ==
  /\ APIOMORPHIC_AVAILABLE = FALSE
  /\ tool_definitions_set = FALSE
  /\ tool_definitions = <<>>
  /\ tools = ConcRegistry[1]
  /\ descriptions = ConcRegistry[2]
  /\ parameters = ConcRegistry[3]
  /\ decorator_name = NoDecorator
  /\ tool_name_arg = NoDecorator
  /\ warnings = 0
  /\ nregs = 2
  /\ group_order = <<<<"math">>>>
  /\ last = Op("init", <<>>, EmptyKw, FALSE, NoOutcome)
  /\ calls = [i \in 1..MaxCalls |-> IdleCall]

OnLoop(j) == calls[j].entry = "async" /\ calls[j].pc \in {"resolving", "running", "returning"}

\* a task of the shared loop runs only while no other task holds the loop
MayRun(i, entry) == entry = "async" => \A j \in 1..MaxCalls : j # i => ~OnLoop(j)

\* mutant: the keywords are read from a slot shared by all invocations
call_kwargs_shared(i) == last.kwargs

\* the keywords an invocation passes on: its own **kwargs
call_kwargs(i) == calls[i].kwargs

Call(i, entry, name, kw) ==
  /\ calls[i].pc = "idle"
  /\ MayRun(i, entry)
  /\ calls' = [calls EXCEPT ![i] = [IdleCall EXCEPT !.pc = "resolving", !.entry = entry,
                                                     !.name = name, !.kwargs = kw]]
  /\ last' = Op("call", name, kw, FALSE, NoOutcome)
  /\ UNCHANGED <<APIOMORPHIC_AVAILABLE, tool_name_arg, tool_definitions_set, tool_definitions, registry, decorator_name, warnings, nregs, group_order>>

\* group, func_name = cls._parse_tool_name(name) and the registry lookup
ResolveStep(i) ==
  LET c == calls[i]
      p == parse_tool_name(c.name)
  IN  /\ c.pc = "resolving"
      /\ MayRun(i, c.entry)
      /\ calls' = [calls EXCEPT ![i] =
            IF IsException(p)
            THEN [c EXCEPT !.pc = "done", !.result = RetStr(<<"Error: ">> \o StrOf(p))]
            ELSE IF IsRegistered(p.group, p.func_name)
            THEN [c EXCEPT !.pc = "running", !.func = DictGet(DictGet(tools, p.group), p.func_name)]
            ELSE [c EXCEPT !.pc = "done", !.result = UnknownTool(c.name)]]
      /\ UNCHANGED <<APIOMORPHIC_AVAILABLE, tool_name_arg, tool_definitions_set, tool_definitions, registry, decorator_name, warnings, nregs, group_order, last>>

\* mutant: a synchronous body is called where the wrapper runs, on the loop
RunStep_calls_directly(i) ==
  LET c == calls[i]
  IN  /\ c.pc = "running"
      /\ MayRun(i, c.entry)
      /\ calls' = [calls EXCEPT ![i] =
            [c EXCEPT !.pc = "returning", !.ran_on = "loop",
                      !.outcome = CallFunc(c.func.func, call_kwargs(i))]]
      /\ UNCHANGED <<APIOMORPHIC_AVAILABLE, tool_name_arg, tool_definitions_set, tool_definitions, registry, decorator_name, warnings, nregs, group_order, last>>

\* execute_sync called where a loop is already running: asyncio.run raises and
\* the entry point returns the error string.  Otherwise wrapper: a coroutine
\* body is awaited on the loop, a synchronous body is handed to a worker thread
\* and the wrapper suspends
RunStep(i) ==
  LET c == calls[i]
  IN  /\ c.pc = "running"
      /\ MayRun(i, c.entry)
      /\ calls' = [calls EXCEPT ![i] =
            IF c.entry = "sync_in_loop"
            THEN [c EXCEPT !.pc = "done",
                           !.result = RetStr(<<"Error: ">>
                                             \o StrOf(asyncio_run(TRUE, c.func, call_kwargs(i))))]
            ELSE IF FuncDef(c.func.func).coroutine
            THEN [c EXCEPT !.pc = "returning", !.ran_on = "loop",
                           !.outcome = CallFunc(c.func.func, call_kwargs(i))]
            ELSE [c EXCEPT !.pc = "in_thread"]]
      /\ UNCHANGED <<APIOMORPHIC_AVAILABLE, tool_name_arg, tool_definitions_set, tool_definitions, registry, decorator_name, warnings, nregs, group_order, last>>

\* the worker thread runs the synchronous body
ThreadStep(i) ==
  LET c == calls[i]
  IN  /\ c.pc = "in_thread"
      /\ calls' = [calls EXCEPT ![i] =
            [c EXCEPT !.pc = "resumable", !.ran_on = "worker",
                      !.outcome = to_thread(c.func.func, call_kwargs(i))]]
      /\ UNCHANGED <<APIOMORPHIC_AVAILABLE, tool_name_arg, tool_definitions_set, tool_definitions, registry, decorator_name, warnings, nregs, group_order, last>>

\* mutant: a failed body is run again instead of being reported
ReturnStep_retries(i) ==
  LET c == calls[i]
  IN  /\ c.pc \in {"returning", "resumable"}
      /\ MayRun(i, c.entry)
      /\ calls' = [calls EXCEPT ![i] =
            IF IsException(c.outcome)
            THEN [c EXCEPT !.pc = "running"]
            ELSE [c EXCEPT !.pc = "done", !.result = wrapper_except(c.func, c.outcome)]]
      /\ UNCHANGED <<APIOMORPHIC_AVAILABLE, tool_name_arg, tool_definitions_set, tool_definitions, registry, decorator_name, warnings, nregs, group_order, last>>

\* wrapper returns the result or the error string; the entry point returns it
ReturnStep(i) ==
  LET c == calls[i]
  IN  /\ c.pc \in {"returning", "resumable"}
      /\ MayRun(i, c.entry)
      /\ calls' = [calls EXCEPT ![i] =
            [c EXCEPT !.pc = "done", !.result = wrapper_except(c.func, c.outcome)]]
      /\ UNCHANGED <<APIOMORPHIC_AVAILABLE, tool_name_arg, tool_definitions_set, tool_definitions, registry, decorator_name, warnings, nregs, group_order, last>>

NextConc ==
  \/ \E i \in 1..MaxCalls, e \in {"sync", "async"} : \E j \in Jobs(i) : Call(i, e, j[1], j[2])
  \/ \E i \in 1..MaxCalls : ResolveStep(i)
  \/ \E i \in 1..MaxCalls : RunStep(i)
  \/ \E i \in 1..MaxCalls : ThreadStep(i)
  \/ \E i \in 1..MaxCalls : ReturnStep(i)

SpecConc == InitConc /\ [][NextConc]_vars

-----------------------------------------------------------------------------
(* The life cycle of an invocation: through execute_async, through            *)
(* execute_sync from a blocking thread, and through execute_sync called where *)
(* an event loop is already running; with names that resolve and names that   *)
(* do not, and bodies that return and bodies that raise.                      *)

LifeRegistry == RegisterInto(ConcRegistry, <<"text">>, <<"divide">>, "divide")

LifeJobs == {<<<<"math", ".", "add">>, [a |-> 5, b |-> 3]>>,
             <<<<"multiply">>, [x |-> 2, y |-> 3]>>,
             <<<<"text", ".", "divide">>, [a |-> 6, b |-> 0]>>,
             <<<<"nosuch">>, EmptyKw>>,
             <<<<"unknown", ".", "tool">>, EmptyKw>>,
             <<<<"math", ".", "add">>, [wrong_param |-> 1]>>,
             <<<<"add">>, [a |-> 1, b |-> 1]>>,
             <<<<"text", ".", "divide">>, [a |-> 6, b |-> 3]>>,
             <<<<"divide">>, EmptyKw>>,
             <<<<"math", ".", "multiply">>, [x |-> 2]>>,
             <<<<"math", ".", "text", ".", "add">>, [a |-> 5, b |-> 3]>>}

Entries == {"sync", "async", "sync_in_loop"}

InitLife ==
  /\ APIOMORPHIC_AVAILABLE = FALSE
  /\ tool_definitions_set = FALSE
  /\ tool_definitions = <<>>
  /\ tools = LifeRegistry[1]
  /\ descriptions = LifeRegistry[2]
  /\ parameters = LifeRegistry[3]
  /\ decorator_name = NoDecorator
  /\ tool_name_arg = NoDecorator
  /\ warnings = 0
  /\ nregs = 3
  /\ group_order = <<<<"math">>, <<"text">>>>
  /\ last = Op("init", <<>>, EmptyKw, FALSE, NoOutcome)
  /\ calls = [i \in 1..MaxCalls |-> IdleCall]

NextLife ==
  \/ \E i \in 1..MaxLive, e \in Entries, j \in LifeJobs : Call(i, e, j[1], j[2])
  \/ \E i \in 1..MaxLive : ResolveStep(i)
  \/ \E i \in 1..MaxLive : RunStep(i)
  \/ \E i \in 1..MaxLive : ThreadStep(i)
  \/ \E i \in 1..MaxLive : ReturnStep(i)

\* a started thread keeps running, the loop runs every task that is ready, and
\* the worker pool runs every body handed to it
LifeFairness ==
  \A i \in 1..MaxLive :
    /\ WF_vars(ResolveStep(i))
    /\ WF_vars(RunStep(i))
    /\ WF_vars(ThreadStep(i))
    /\ WF_vars(ReturnStep(i))

SpecLife == InitLife /\ [][NextLife]_vars /\ LifeFairness

\* the instance-level decorator of Toolbelt.tool, with the same queries
NextTool ==
  \/ \E n \in NameOpts : Tool(n)
  \/ \E f \in FuncIds : Decorator(f)
  \/ \E typ \in PyTypes : JsonType(typ)
  \/ Query

InitTool == \E available \in BOOLEAN : InitWith(available)

SpecTool == InitTool /\ [][NextTool]_vars

-----------------------------------------------------------------------------
(* Properties *)

IsExecute(l) == l.op \in {"execute_async", "execute_sync"}

IsErrorString(o) == o.kind = "return" /\ o.t = "str" /\ Len(o.s) > 0 /\ o.s[1] = "Error: "

Qualified(pr) == pr[1] \o <<".">> \o pr[2]

\* the registered (group, name) pairs
RegisteredPairs ==
  UNION {{<<tools[i][1], tools[i][2][j][1]>> : j \in 1..Len(tools[i][2])} : i \in 1..Len(tools)}

FuncOf(pr) == DictGet(DictGet(tools, pr[1]), pr[2])

\* the requested name resolves to a registered entry, and which one
ResolvesToEntry(name) ==
  /\ ~IsException(parse_tool_name(name))
  /\ IsRegistered(parse_tool_name(name).group, parse_tool_name(name).func_name)

Target(name) == <<parse_tool_name(name).group, parse_tool_name(name).func_name>>

\* the body of the resolved tool raises for these keywords
BodyRaises(name, kw) == ResolvesToEntry(name) /\ IsException(CallFunc(FuncOf(Target(name)).func, kw))

\* no registered entry goes by the requested name, qualified or bare
NoEntry(name) ==
  \A pr \in RegisteredPairs :
    /\ Qualified(pr) # name
    /\ Contains(name, ".") \/ pr[2] # name

C2_SyncAsyncAgree ==
  /\ (last.op = "execute_sync" /\ ~last.in_loop /\ ResolvesToEntry(last.name)) =>
       /\ last.out = execute_async(last.name, last.kwargs)
       /\ ~BodyRaises(last.name, last.kwargs) =>
            last.out = CallFunc(FuncOf(Target(last.name)).func, last.kwargs)
  /\ (last.op = "execute_async" /\ ResolvesToEntry(last.name)) =>
       /\ last.out = execute_sync(last.name, last.kwargs, FALSE)
       /\ ~BodyRaises(last.name, last.kwargs) =>
            last.out = CallFunc(FuncOf(Target(last.name)).func, last.kwargs)

C2_Witness ==
  /\ last.op = "execute_sync"
  /\ ~last.in_loop
  /\ ResolvesToEntry(last.name)
  /\ ~FuncDef(FuncOf(Target(last.name)).func).coroutine
  /\ BodyRaises(last.name, last.kwargs)
  /\ last.out = execute_async(last.name, last.kwargs)

\* C3: a registration never raises (it stores the callable, and warns once
\* when it overwrites).
C3_RegistrationNeverRaises == last.op = "decorator" => last.out.kind # "raise"

\* C4 as stated: for every registered (group, name), whatever the group and
\* the name contain, resolving group + "." + name gives exactly (group, name).
C4_QualifiedRoundTrip ==
  \A pr \in RegisteredPairs : parse_tool_name(Qualified(pr)) = Resolved(pr[1], pr[2])

\* C4 amended: for every registered (group, name) whose group contains no ".",
\* whatever the name contains, resolving group + "." + name gives (group, name).
C4_QualifiedRoundTripDotlessGroup ==
  \A pr \in RegisteredPairs :
    ~Contains(pr[1], ".") => parse_tool_name(Qualified(pr)) = Resolved(pr[1], pr[2])

C4_Witness ==
  /\ IsRegistered(<<"math">>, <<"text", ".", "add">>)
  /\ last.op = "resolve"
  /\ last.name = <<"math", ".", "text", ".", "add">>
  /\ last.out = Resolved(<<"math">>, <<"text", ".", "add">>)

\* the groups, earliest registered first, that hold a tool of this bare name
RegisteredGroupsWith(name) == SelectSeq(group_order, LAMBDA g : IsRegistered(g, name))

C6_UnknownToolMessage ==
  (IsExecute(last) /\ NoEntry(last.name)) => last.out = UnknownTool(last.name)

\* C7: when the body of a registered tool raises with message m, execute_async
\* and execute_sync return exactly "Error: <group>.<name>: m".
C7_ErrorNamesQualifiedTool ==
  (/\ IsExecute(last)
   /\ ~(last.op = "execute_sync" /\ last.in_loop)
   /\ BodyRaises(last.name, last.kwargs)) =>
    last.out = RetStr(<<"Error: ">> \o Qualified(Target(last.name)) \o <<": ">>
                      \o StrOf(CallFunc(FuncOf(Target(last.name)).func, last.kwargs)))

\* what the i-th concurrent invocation must return: add(i-1, i-1) or multiply(i-1, i-1)
ExpectedResult(i) ==
  IF calls[i].name = <<"math", ".", "add">> THEN RetInt(2 * (i - 1)) ELSE RetInt((i - 1) * (i - 1))

\* C8: under every interleaving of concurrent invocations, by threads through
\* execute_sync or by tasks through execute_async, each finished invocation
\* holds the result for its own arguments, so results line up with the inputs.
C8_OwnResult ==
  \A i \in 1..MaxCalls : calls[i].pc = "done" => calls[i].result = ExpectedResult(i)

C8_Witness ==
  /\ \A i \in 1..MaxCalls : calls[i].pc = "done" /\ calls[i].result = ExpectedResult(i)
  /\ \E i \in 1..MaxCalls : calls[i].entry = "sync"
  /\ \E i \in 1..MaxCalls : calls[i].entry = "async" /\ calls[i].ran_on = "worker"
  /\ last.kwargs # calls[1].kwargs

RetList(items) == [kind |-> "return", t |-> "list", n |-> 0, s |-> <<>>, items |-> items]

\* the (qualified_name, description, parameters) tuples of the tools in the groups
ToolTuples(groups) ==
  {<<Qualified(pr), DictGet(descriptions, Qualified(pr)), DictGet(parameters, Qualified(pr))>> :
     pr \in {q \in RegisteredPairs : Contains(groups, q[1])}}

\* C9: get_tools(groups=G) returns one tuple for every registered tool whose
\* group is in G and for no other tool, skipping groups without tools; without
\* groups it returns the tools of all groups.
C9_GetToolsByGroup ==
  last.op = "get_tools" =>
    last.out = RetList(IF last.groups_given THEN ToolTuples(last.groups)
                                            ELSE ToolTuples(group_order))

Range(q) == {q[i] : i \in 1..Len(q)}

DeclaredNames(f) == [i \in 1..Len(FuncDef(f).params) |-> FuncDef(f).params[i].p]

\* C10: every stored parameters schema has type "object", its properties keys
\* are exactly its required entries, required has no duplicates and follows the
\* declaration order of the parameters of a tool registered under that qualified
\* name, and "return" is in neither; every registered tool has a stored schema.
C10_SchemaShape ==
  /\ \A pr \in RegisteredPairs : DictHas(parameters, Qualified(pr))
  /\ \A i \in 1..Len(parameters) :
       LET schema == parameters[i][2]
       IN  /\ schema.type = "object"
           /\ Range(DictKeys(schema.properties)) = Range(schema.required)
           /\ Cardinality(Range(schema.required)) = Len(schema.required)
           /\ Len(schema.properties) = Len(schema.required)
           /\ "return" \notin Range(schema.required)
           /\ "return" \notin Range(DictKeys(schema.properties))
           /\ \E pr \in RegisteredPairs :
                /\ Qualified(pr) = parameters[i][1]
                /\ schema.required = SelectSeq(DeclaredNames(FuncOf(pr).func),
                                               LAMBDA x : x \in Range(schema.required))

C10_Witness ==
  /\ IsRegistered(<<"text">>, <<"divide">>)
  /\ DictGet(parameters, <<"text", ".", "divide">>).required = <<"a", "b">>
  /\ FuncDef(FuncOf(<<<<"text">>, <<"divide">>>>).func).ret # ""

\* C11: for every name that contains a ".", resolve returns (the text before
\* the first ".", all the text after it), whatever the registry holds and
\* without failing: "math.text.add" gives group "math" and bare name "text.add".
C11_DottedSplitsAtFirst ==
  (last.op = "resolve" /\ Contains(last.name, ".")) =>
    /\ last.out.kind = "return"
    /\ \E i \in 1..Len(last.name) :
         /\ last.name[i] = "."
         /\ ~Contains(SubSeq(last.name, 1, i - 1), ".")
         /\ last.out = Resolved(SubSeq(last.name, 1, i - 1),
                                SubSeq(last.name, i + 1, Len(last.name)))

C11_Witness ==
  /\ tools = <<>>
  /\ last.op = "resolve"
  /\ last.name = <<"math", ".", "text", ".", "add">>
  /\ last.out = Resolved(<<"math">>, <<"text", ".", "add">>)

\* C12: get_tools with an api_format while the formatter could not be imported
\* raises ImportError and returns nothing; get_tools without an api_format
\* returns the raw list of tuples, whether or not the formatter is available.
C12_FormatterUnavailable ==
  last.op = "get_tools" =>
    /\ (last.api_format # None /\ ~APIOMORPHIC_AVAILABLE) =>
          (last.out.kind = "raise" /\ last.out.t = "ImportError")
    /\ last.api_format = None => (last.out.kind = "return" /\ last.out.t = "list")

JsonTags == {"string", "integer", "number", "boolean", "array", "object"}

TypeTable == {<<"str", "string">>, <<"int", "integer">>, <<"float", "number">>,
              <<"bool", "boolean">>, <<"list", "array">>, <<"dict", "object">>}

\* C13: the type mapper returns, without failing, "string" for str, "integer"
\* for int, "number" for float, "boolean" for bool, "array" for list, "object"
\* for dict and "string" for every other type; the result is one of six tags.
C13_TypeMapperTotal ==
  last.op = "get_json_type" =>
    /\ last.out.kind = "return"
    /\ last.out.t = "str"
    /\ Len(last.out.s) = 1
    /\ last.out.s[1] \in JsonTags
    /\ \A row \in TypeTable : last.typ = row[1] => last.out.s[1] = row[2]
    /\ (\A row \in TypeTable : last.typ # row[1]) => last.out.s[1] = "string"

C13_Witness ==
  /\ last.op = "get_json_type"
  /\ last.typ = "Optional[int]"
  /\ last.out = RetStr(<<"string">>)

\* C14: a decorator made by tool() without a name registers every function
\* it is applied to under that function's own name, also when it is applied to
\* several functions in turn: the name it uses is the function's name, and what
\* it stores is stored under that name.
C14_OwnNameOnReuse ==
  (last.op = "decorator" /\ tool_name_arg = None) =>
    /\ last.name = FuncDef(last.func).name
    /\ last.out.kind # "raise" =>
         /\ DictHas(tool_definitions, FuncDef(last.func).name)
         /\ DictGet(tool_definitions, FuncDef(last.func).name).callable.func = last.func

\* C15: the description stored for every registered tool is a string, the
\* function's documentation text, or the empty string when it has none.
C15_DescriptionIsString ==
  \A i \in 1..Len(descriptions) : descriptions[i][2].pytype = "str"

\* C16: every declared parameter of a registered function, with or without a
\* default value or a type annotation, is a key of the schema's properties and
\* an entry of its required list.
C16_AllDeclaredParameters ==
  \A pr \in RegisteredPairs :
    LET schema == DictGet(parameters, Qualified(pr))
    IN  (\A other \in RegisteredPairs : Qualified(other) = Qualified(pr) => other = pr) =>
          /\ ParamNames(FuncOf(pr).func) \subseteq Range(DictKeys(schema.properties))
          /\ ParamNames(FuncOf(pr).func) \subseteq Range(schema.required)

\* where an invocation stands
Phase(c) ==
  CASE c.pc = "idle" -> "PENDING"
    [] c.pc = "resolving" -> "RESOLVING"
    [] c.pc \in {"running", "in_thread", "resumable", "returning"} -> "RUNNING"
    [] c.pc = "done" ->
         IF c.func = NoFunc THEN "FAILED(unresolved)"
         ELSE IF c.outcome.kind = "return" /\ c.result = c.outcome THEN "COMPLETED"
         ELSE "FAILED(error)"

PhaseSteps == {<<"PENDING", "RESOLVING">>,
               <<"RESOLVING", "RUNNING">>, <<"RESOLVING", "FAILED(unresolved)">>,
               <<"RUNNING", "COMPLETED">>, <<"RUNNING", "FAILED(error)">>}

Terminal(c) == Phase(c) \in {"COMPLETED", "FAILED(unresolved)", "FAILED(error)"}

\* one step of the program moves every invocation along the state machine, runs
\* a body only for an invocation that is RUNNING, and leaves a finished one alone
LifecycleStep ==
  \A i \in 1..MaxLive :
    /\ \/ Phase(calls'[i]) = Phase(calls[i])
       \/ <<Phase(calls[i]), Phase(calls'[i])>> \in PhaseSteps
    /\ calls'[i].outcome # calls[i].outcome => Phase(calls[i]) = "RUNNING"
    /\ Terminal(calls[i]) => calls'[i] = calls[i]

\* a finished invocation hands back a value: the body's own value when it
\* completed, an error string when it failed; the body of an unresolved one
\* has not run
LifecycleEnd ==
  \A i \in 1..MaxLive :
    Terminal(calls[i]) =>
      /\ calls[i].result.kind = "return"
      /\ Phase(calls[i]) # "COMPLETED" => IsErrorString(calls[i].result)
      /\ Phase(calls[i]) = "FAILED(unresolved)" =>
            (calls[i].outcome = NoOutcome /\ calls[i].ran_on = "none")

C18_SyncBodyOnWorker ==
  \A i \in 1..MaxCalls :
    /\ calls[i].ran_on # "none" =>
         calls[i].ran_on = IF FuncDef(calls[i].func.func).coroutine THEN "loop" ELSE "worker"
    /\ (calls[i].pc \in {"in_thread", "resumable"}) =>
         /\ ~FuncDef(calls[i].func.func).coroutine
         /\ ~OnLoop(i)
         /\ \A j \in 1..MaxCalls :
              (\A k \in 1..MaxCalls \ {i, j} : ~OnLoop(k)) => MayRun(j, "async")

C18_Witness ==
  \E i, j \in 1..MaxCalls :
    /\ calls[i].entry = "async"
    /\ calls[i].pc = "in_thread"
    /\ calls[j].entry = "async"
    /\ calls[j].pc = "returning"
    /\ calls[j].ran_on = "loop"

\* C19: execute_sync on a registered tool runs the wrapper to completion on a
\* loop of its own and returns the tool's result, whether or not the calling
\* thread is already inside a running event loop.
C19_SyncOwnsItsLoop ==
  (/\ last.op = "execute_sync"
   /\ ResolvesToEntry(last.name)
   /\ ~BodyRaises(last.name, last.kwargs)) =>
    last.out = CallFunc(FuncOf(Target(last.name)).func, last.kwargs)

\* what the registry holds for a registered pair
EntryOf(pr) ==
  <<FuncOf(pr), DictGet(descriptions, Qualified(pr)), DictGet(parameters, Qualified(pr))>>

IsQuery(l) == l.op \in {"resolve", "get_tools", "execute_async", "execute_sync"}

\* every registered pair other than the one just registered keeps its callable,
\* description and parameters
OneSlotChanged ==
  /\ last'.slot \in RegisteredPairs'
  /\ \A pr \in RegisteredPairs \ {last'.slot} : EntryOf(pr)' = EntryOf(pr)

====
